---- MODULE Spec2Model ----
(***************************************************************************)
(* CenterNet-style detectors of St_CenterNet: the ResNet/FPN detector      *)
(* (nets/ResNet_FPN.py), the MobileNet/IDA detector (nets/MobileNetv2.py) *)
(* and the construction path of the MobileNeXt detector                    *)
(* (nets/MobileNext.py), modelled at the level of layer shapes: a tensor   *)
(* is its channel count and its (square) spatial size, a layer is its      *)
(* constructor arguments, and a forward pass is the sequence of its        *)
(* source lines.  Biases are kept in hundredths (-2.19 is -219).           *)
(***************************************************************************)
EXTENDS Integers, Sequences, FiniteSets, TLC

VARIABLES
  pc,    \* position of the running call
  exc,   \* the exception that ended the call ("" while none)
  net,   \* the PoseResNet object (ResNet_FPN.py)
  fwd,   \* locals of PoseResNet.forward
  base,  \* the MobileNetv2 object and the locals of its constructor
  dla_up,\* the MobileNetUp object
  cnet,  \* the CenterNet object of MobileNetv2.py
  mfwd,  \* locals of CenterNet.forward and the forwards it calls
  up,    \* the nn.ConvTranspose2d handed to a direct fill_up_weights call
  lm,    \* locals of load_model and the target model's state dictionary
  blk,   \* a SandGlass or InvertResidual built on its own, and its forward
  nx,    \* the objects and constructor locals of MobileNext.get_pose_net
  mb,    \* a MobileNetv2 constructor run on a given setting literal
  dv     \* the arguments and the result of a _make_divisible call

vars == <<pc, exc, net, fwd, base, dla_up, cnet, mfwd, up, lm, blk, nx, mb, dv>>

auxVars == <<blk, nx, mb, dv>>

resnetVars == <<net, fwd>>
mobileVars == <<base, dla_up, cnet, mfwd>>

(* ------------------------------ bounds -------------------------------- *)
MaxH == 64          \* input sizes 1..MaxH
MaxClasses == 2     \* num_classes 1..MaxClasses
MaxHeadConv == 1    \* head_conv 0..MaxHeadConv of PoseResNet
MaxOutDim == 2      \* head_conv 1..MaxOutDim of the MobileNet CenterNet
MaxK == 6           \* kernel sizes 1..MaxK of a direct fill_up_weights call
MaxKeys == 3        \* state dictionaries of 0..MaxKeys entries
MaxStride == 3      \* strides 0..MaxStride handed to a block built on its own
MaxRows == 2        \* setting literals of 0..MaxRows rows
MaxV == 48          \* v in 1..MaxV for a direct _make_divisible call
MaxDivisor == 12    \* divisor in 1..MaxDivisor for a direct _make_divisible call

(* -------------------------- tensors and layers ------------------------ *)
\* The value a failed layer call stands for (a framework RuntimeError).
Err == [ch |-> 0, size |-> 0]

Tensor(ch, size) == [ch |-> ch, size |-> size]

\* nn.Conv2d(in_channels, out_channels, kernel_size, stride, padding)
Conv2d(in_channels, out_channels, kernel_size, stride, padding) ==
  [in_channels |-> in_channels, out_channels |-> out_channels,
   kernel_size |-> kernel_size, stride |-> stride, padding |-> padding]

\* Conv2d.__call__: floor((n + 2p - k) / s) + 1, channels checked.
Conv2d_forward(m, x) ==
  IF x = Err \/ x.ch # m.in_channels \/ x.size + 2 * m.padding < m.kernel_size
  THEN Err
  ELSE Tensor(m.out_channels,
              (x.size + 2 * m.padding - m.kernel_size) \div m.stride + 1)

\* nets.modules.BasicConv: Conv2d + BatchNorm2d + ReLU, stride 1 and
\* padding 0 unless given.
BasicConv(in_planes, out_planes, kernel_size, stride, padding) ==
  Conv2d(in_planes, out_planes, kernel_size, stride, padding)

\* conv3x3 of ResNet_FPN.py
conv3x3(in_planes, out_planes, stride) ==
  Conv2d(in_planes, out_planes, 3, stride, 1)

\* A max-pool that forgets its stride.
MaxPool2d_forward_stride1(x) ==
  IF x = Err THEN Err ELSE Tensor(x.ch, (x.size + 2 - 3) \div 1 + 1)

\* nn.MaxPool2d(kernel_size=3, stride=2, padding=1)
MaxPool2d_forward(x) ==
  IF x = Err THEN Err ELSE Tensor(x.ch, (x.size + 2 - 3) \div 2 + 1)

\* nn.ConvTranspose2d: (n - 1) * s - 2p + k + output_padding
ConvTranspose2d_forward(m, x) ==
  IF x = Err \/ x.ch # m.in_channels
  THEN Err
  ELSE Tensor(m.out_channels,
              (x.size - 1) * m.stride - 2 * m.padding + m.kernel_size
                + m.output_padding)

\* Tensor addition: equal channels; spatial sizes equal or broadcast from 1.
Add(a, b) ==
  IF a = Err \/ b = Err \/ a.ch # b.ch THEN Err
  ELSE IF a.size = b.size THEN a
  ELSE IF a.size = 1 THEN b
  ELSE IF b.size = 1 THEN a
  ELSE Err

(* ------------------------------ ResNet blocks ------------------------- *)
expansion(block) == IF block = "Bottleneck" THEN 4 ELSE 1

\* BasicBlock(inplanes, planes, stride, downsample) / Bottleneck(...):
\* downsample is <<>> for None, or the one-element list of its convolution.
Block(block, inplanes, planes, stride, downsample) ==
  [block |-> block, inplanes |-> inplanes, planes |-> planes,
   stride |-> stride, downsample |-> downsample]

Residual(b, x) ==
  IF b.downsample = <<>> THEN x ELSE Conv2d_forward(b.downsample[1], x)

BasicBlock_forward(b, x) ==
  LET out1 == Conv2d_forward(conv3x3(b.inplanes, b.planes, b.stride), x)
      out2 == Conv2d_forward(conv3x3(b.planes, b.planes, 1), out1)
      residual == Residual(b, x)
  IN IF out2 = Err \/ residual = Err \/ out2 # residual THEN Err ELSE out2

Bottleneck_forward(b, x) ==
  LET out1 == Conv2d_forward(Conv2d(b.inplanes, b.planes, 1, 1, 0), x)
      out2 == Conv2d_forward(Conv2d(b.planes, b.planes, 3, b.stride, 1), out1)
      out3 == Conv2d_forward(Conv2d(b.planes, b.planes * 4, 1, 1, 0), out2)
      residual == Residual(b, x)
  IN IF out3 = Err \/ residual = Err \/ out3 # residual THEN Err ELSE out3

Block_forward(b, x) ==
  IF b.block = "Bottleneck" THEN Bottleneck_forward(b, x)
  ELSE BasicBlock_forward(b, x)

\* nn.Sequential of blocks
RECURSIVE Sequential_forward(_, _)
Sequential_forward(blocks, x) ==
  IF blocks = <<>> \/ x = Err THEN x
  ELSE LET out == Block_forward(Head(blocks), x)
       IN IF out = Err THEN Err ELSE Sequential_forward(Tail(blocks), out)

\* PoseResNet._make_layer, with self.inplanes passed in and returned.
make_layer(inplanes, block, planes, blocks, stride) ==
  LET downsample ==
        IF stride # 1 \/ inplanes # planes * expansion(block)
        THEN <<Conv2d(inplanes, planes * expansion(block), 1, stride, 0)>>
        ELSE <<>>
      first == Block(block, inplanes, planes, stride, downsample)
      rest == [i \in 1..(blocks - 1) |->
                 Block(block, planes * expansion(block), planes, 1, <<>>)]
  IN [layers |-> <<first>> \o rest, inplanes |-> planes * expansion(block)]

\* PoseResNet._get_deconv_cfg
get_deconv_cfg(deconv_kernel) ==
  IF deconv_kernel = 4 THEN [kernel |-> 4, padding |-> 1, output_padding |-> 0]
  ELSE IF deconv_kernel = 3 THEN [kernel |-> 3, padding |-> 1, output_padding |-> 1]
  ELSE [kernel |-> 2, padding |-> 0, output_padding |-> 0]

\* PoseResNet._make_deconv_layer: ConvTranspose2d(stride 2) + BN + ReLU
make_deconv_layer(input_filters, num_filters, num_kernels) ==
  LET cfg == get_deconv_cfg(num_kernels)
  IN [in_channels |-> input_filters, out_channels |-> num_filters,
      kernel_size |-> cfg.kernel, stride |-> 2, padding |-> cfg.padding,
      output_padding |-> cfg.output_padding]

(* ------------------------------ PoseResNet ---------------------------- *)
HMAP_BIAS == -219   \* -2.19, the heatmap bias written by the code

\* Values a freshly built nn.Conv2d may hold in a bias entry: the framework
\* draws them uniformly from (-1/sqrt(fan_in), 1/sqrt(fan_in)), fan_in >= 1.
DefaultBias == {-8, 8}

BiasVectors(n) == [1..n -> DefaultBias]

Fill(n, v) == [c \in 1..n |-> v]

resnet_spec ==
  [num_layers \in {18, 34, 50, 101, 152} |->
     CASE num_layers = 18 -> [block |-> "BasicBlock", layers |-> <<2, 2, 2, 2>>]
       [] num_layers = 34 -> [block |-> "BasicBlock", layers |-> <<3, 4, 6, 3>>]
       [] num_layers = 50 -> [block |-> "Bottleneck", layers |-> <<3, 4, 6, 3>>]
       [] num_layers = 101 -> [block |-> "Bottleneck", layers |-> <<3, 4, 23, 3>>]
       [] OTHER -> [block |-> "Bottleneck", layers |-> <<3, 8, 36, 3>>]]

\* A head convolution whose bias is tracked per output channel.
HeadConv(conv, bias) == [conv |-> conv, bias |-> bias]

\* The heatmap head built by PoseResNet.__init__ (nn.ReLU carries no state
\* and keeps the shape, so the list holds the convolutions only); d1 and d2
\* are the framework's initial biases of the two convolutions.
hmap_head(head_conv, num_classes, d1, d2) ==
  IF head_conv > 0
  THEN <<HeadConv(Conv2d(128, head_conv, 3, 1, 1), d1),
         HeadConv(Conv2d(head_conv, num_classes, 1, 1, 0),
                  Fill(num_classes, HMAP_BIAS))>>
  ELSE <<HeadConv(Conv2d(128, num_classes, 1, 1, 0), d2)>>

\* A regression head (regs, w_h_): its parameters are tracked only as
\* "default" (framework values) or "normal" (normal_(std=0.001), bias 0).
reg_head(head_conv) ==
  IF head_conv > 0
  THEN <<[conv |-> Conv2d(128, head_conv, 3, 1, 1), init |-> "default"],
         [conv |-> Conv2d(head_conv, 2, 1, 1, 0), init |-> "default"]>>
  ELSE <<[conv |-> Conv2d(128, 2, 1, 1, 0), init |-> "default"]>>

\* A stem convolution built without stride=2.
conv1_stride1 == Conv2d(3, 32, 7, 1, 3)

\* self.conv1 of PoseResNet.__init__
conv1 == Conv2d(3, 32, 7, 2, 3)

\* PoseResNet.__init__(block, layers, head_conv, num_classes)
PoseResNet_init(block, layers, head_conv, num_classes, d1, d2) ==
  LET l1 == make_layer(32, block, 32, layers[1], 1)
      l2 == make_layer(l1.inplanes, block, 64, layers[2], 2)
      l3 == make_layer(l2.inplanes, block, 128, layers[3], 2)
      l4 == make_layer(l3.inplanes, block, 256, layers[4], 2)
  IN [block |-> block, layers |-> layers,
      head_conv |-> head_conv, num_classes |-> num_classes,
      inplanes |-> l4.inplanes,
      conv1 |-> conv1,
      layer1 |-> l1.layers, layer2 |-> l2.layers,
      layer3 |-> l3.layers, layer4 |-> l4.layers,
      deconv_layers1 |-> make_deconv_layer(256, 128, 4),
      fpn_conv1 |-> BasicConv(128, 128, 3, 1, 1),
      deconv_layers2 |-> make_deconv_layer(128, 128, 4),
      fpn_conv2 |-> BasicConv(64, 128, 3, 1, 1),
      deconv_layers3 |-> make_deconv_layer(128, 128, 4),
      hmap |-> hmap_head(head_conv, num_classes, d1, d2),
      regs |-> reg_head(head_conv),
      w_h_ |-> reg_head(head_conv)]

\* PoseResNet.init_weights: every Conv2d of hmap gets bias -2.19, every
\* Conv2d of regs and w_h_ gets normal weights and zero bias.
init_weights(n) ==
  [n EXCEPT
     !.hmap = [i \in 1..Len(n.hmap) |->
                 HeadConv(n.hmap[i].conv,
                          Fill(n.hmap[i].conv.out_channels, HMAP_BIAS))],
     !.regs = [i \in 1..Len(n.regs) |-> [n.regs[i] EXCEPT !.init = "normal"]],
     !.w_h_ = [i \in 1..Len(n.w_h_) |-> [n.w_h_[i] EXCEPT !.init = "normal"]]]

(* ------------------------- MobileNetv2 backbone ----------------------- *)
\* A _make_divisible without the correction of lines 36-37.
make_divisible_uncorrected(v, divisor) ==
  LET min_value == divisor
      rounded == ((v + divisor \div 2) \div divisor) * divisor
  IN IF min_value > rounded THEN min_value ELSE rounded

\* _make_divisible(v, divisor) with min_value left at None; v is an integer
\* (width_mult = 1.0), so int(v + divisor / 2) is v + divisor \div 2.
make_divisible(v, divisor) ==
  LET min_value == divisor
      rounded == ((v + divisor \div 2) \div divisor) * divisor
      new_v == IF min_value > rounded THEN min_value ELSE rounded
  IN IF 10 * new_v < 9 * v THEN new_v + divisor ELSE new_v

\* inverted_residual_setting of MobileNetv2.__init__: rows t, c, n, s
inverted_residual_setting ==
  << <<1, 16, 1, 1>>, <<6, 24, 2, 2>>, <<6, 32, 3, 2>>, <<6, 64, 4, 2>>,
     <<6, 96, 3, 1>>, <<6, 160, 3, 2>>, <<6, 320, 1, 1>> >>

\* A feat_id that taps row 5 in place of the last row.
feat_id_row5 == <<1, 2, 4, 5>>

\* self.feat_id
feat_id == <<1, 2, 4, 6>>

\* A SandGlass whose skip connection looks at the stride only.
SandGlass_stride_only(inp, oup, stride, expand_ratio) ==
  [kind |-> "SandGlass", inp |-> inp, oup |-> oup, stride |-> stride,
   hidden_dim |-> inp \div expand_ratio,
   identity |-> (stride = 1)]

\* SandGlass(inp, oup, stride, expand_ratio) of MobileNetv2.py
SandGlass(inp, oup, stride, expand_ratio) ==
  [kind |-> "SandGlass", inp |-> inp, oup |-> oup, stride |-> stride,
   hidden_dim |-> inp \div expand_ratio,
   identity |-> (stride = 1 /\ inp = oup)]

\* The first layer, BasicConv(3, input_channel, kernel_size=3, stride=2,
\* padding=1), as an element of the same features list.
FirstConv(input_channel) ==
  [kind |-> "BasicConv", inp |-> 3, oup |-> input_channel, stride |-> 2,
   hidden_dim |-> 0, identity |-> FALSE]

SandGlass_forward(b, x) ==
  LET dw == Conv2d_forward(Conv2d(b.inp, b.inp, 3, 1, 1), x)
      pwl == Conv2d_forward(Conv2d(b.inp, b.hidden_dim, 1, 1, 0), dw)
      pw == Conv2d_forward(Conv2d(b.hidden_dim, b.oup, 1, 1, 0), pwl)
      dwl == Conv2d_forward(Conv2d(b.oup, b.oup, 3, b.stride, 1), pw)
  IN IF b.hidden_dim = 0 THEN Err
     ELSE IF b.identity THEN Add(x, dwl) ELSE dwl

Feature_forward(b, x) ==
  IF b.kind = "BasicConv"
  THEN Conv2d_forward(BasicConv(b.inp, b.oup, 3, b.stride, 1), x)
  ELSE SandGlass_forward(b, x)

\* nn.Sequential of backbone blocks
RECURSIVE Features_forward(_, _)
Features_forward(features, x) ==
  IF features = <<>> \/ x = Err THEN x
  ELSE LET out == Feature_forward(Head(features), x)
       IN IF out = Err THEN Err ELSE Features_forward(Tail(features), out)

\* The backbone before its constructor has run.  feature[id] is the
\* attribute feature_<id>; built lists every block in construction order.
NoBase ==
  [input_channel |-> 0, features |-> <<>>, id |-> 0, i |-> 0,
   feat_channel |-> <<>>, feature |-> [k \in {} |-> <<>>], built |-> <<>>]

(* ------------------------------ IDA decoder --------------------------- *)
\* Values an entry of a freshly built nn.ConvTranspose2d weight may hold,
\* as numerators over 4 f^2 like the entries fill_up_weights writes.
DefaultWeight == {-1, 1}

\* Index set of a weight tensor of shape (n0, n1, k, k).
WeightIndex(n0, n1, k) ==
  (0..(n0 - 1)) \X (0..(n1 - 1)) \X (0..(k - 1)) \X (0..(k - 1))

Abs(n) == IF n < 0 THEN 0 - n ELSE n

\* f = math.ceil(w.size(2) / 2)
fill_f(k) == (k + 1) \div 2

\* Numerator of 1 - |i / f - c| over 2 f, c = (2 f - 1 - f % 2) / (2 f).
fill_tap(k, i) ==
  LET f == fill_f(k)
  IN 2 * f - Abs(2 * i - (2 * f - 1 - (f % 2)))

\* fill_up_weights(up): w[0, 0, i, j] from the formula, then
\* w[c, 0, :, :] = w[0, 0, :, :] for c in 1 .. w.size(0) - 1.
fill_up_weights(w, n0, k) ==
  LET w1 == [idx \in DOMAIN w |->
               IF idx[1] = 0 /\ idx[2] = 0
               THEN fill_tap(k, idx[3]) * fill_tap(k, idx[4])
               ELSE w[idx]]
  IN [idx \in DOMAIN w |->
        IF idx[1] \in 1..(n0 - 1) /\ idx[2] = 0
        THEN w1[<<0, 0, idx[3], idx[4]>>]
        ELSE w1[idx]]

\* nn.ConvTranspose2d(in_channels, out_channels, kernel_size, stride):
\* weight of shape (in_channels, out_channels, k, k), w0 as first drawn.
ConvTranspose2d(in_channels, out_channels, kernel_size, stride, w0) ==
  [in_channels |-> in_channels, out_channels |-> out_channels,
   kernel_size |-> kernel_size, stride |-> stride, padding |-> 0,
   output_padding |-> 0, w0 |-> w0, w |-> w0, fills |-> 0]

\* IDAUp(out_dim, channel)
IDAUp(out_dim, channel, w0) ==
  [up |-> ConvTranspose2d(out_dim, out_dim, 2, 2, w0),
   conv |-> Conv2d(channel, out_dim, 1, 1, 0)]

\* IDAUp.forward([x, layer])
IDAUp_forward(m, x, layer) ==
  Add(ConvTranspose2d_forward(m.up, x), Conv2d_forward(m.conv, layer))

\* A reversal that is forgotten.
Reverse_forgotten(seq) == seq

\* channels[::-1] and x[::-1]
Reverse(seq) == [k \in 1..Len(seq) |-> seq[Len(seq) + 1 - k]]

\* The decoder before its constructor has run; up[i + 1] is up_<i>.
NoUp ==
  [channels |-> <<>>, out_dim |-> 0,
   conv |-> Conv2d(0, 0, 1, 1, 0), conv_last |-> Conv2d(0, 0, 3, 1, 1),
   up |-> <<>>, m |-> 0]

\* The MobileNet CenterNet before its constructor has run.
NoCenterNet ==
  [head_conv |-> 0, num_classes |-> 0, heads |-> <<>>,
   hm |-> <<>>, wh |-> <<>>, reg |-> <<>>]

NoMfwd ==
  [H |-> 0, x |-> Err, y |-> <<>>, k |-> 0, layers |-> <<>>, i |-> 0,
   fused |-> <<>>, out |-> <<>>]

NoConvTranspose2d == ConvTranspose2d(0, 0, 0, 2, <<>>)

(* ------------------------------ load_model ---------------------------- *)
\* An OrderedDict is the list of its <<key, value>> items in insertion order.
keys(d) == [k \in 1..Len(d) |-> d[k][1]]

HasKey(d, key) == \E k \in 1..Len(d) : d[k][1] = key

\* d[key]
get(d, key) == d[CHOOSE k \in 1..Len(d) : d[k][1] = key][2]

\* d[key] = value: replaces in place, or appends a new item.
set(d, key, value) ==
  IF HasKey(d, key)
  THEN [k \in 1..Len(d) |-> IF d[k][1] = key THEN <<key, value>> ELSE d[k]]
  ELSE Append(d, <<key, value>>)

\* A tensor of a state dictionary: its shape and its contents.
tensor(shape, data) == [shape |-> shape, data |-> data]

\* A load_state_dict that copies whatever it is handed.
size_mismatch_ignored(param, input_param) == FALSE

\* load_state_dict's test on a parameter and the value bound to its key:
\* a value of another shape is not copied and makes the call raise.
size_mismatch(param, input_param) == param.shape # input_param.shape

\* A binding that always reads the first source item.
restore_value_first(state_dict, old_keys, id) == get(state_dict, old_keys[1])

\* The value load_model binds at step id (0-based): state_dict[old_keys[id]]
restore_value(state_dict, old_keys, id) == get(state_dict, old_keys[id + 1])

NoLoad ==
  [model |-> <<>>, state_dict |-> <<>>, new_keys |-> <<>>, old_keys |-> <<>>,
   restore_dict |-> <<>>, id |-> 0, reads |-> {}, passed |-> <<>>,
   called |-> FALSE, built |-> <<>>]

(* --------------------------- blocks on their own ----------------------- *)
\* InvertResidual(inp, outp, stride, expand_ratio), lines 45-49;
\* int(round(inp * expand_ratio)) of two integers is their product.
InvertResidual(inp, outp, stride, expand_ratio) ==
  [kind |-> "InvertResidual", inp |-> inp, oup |-> outp, stride |-> stride,
   hidden_dim |-> inp * expand_ratio, expand_ratio |-> expand_ratio,
   use_res_connect |-> (stride = 1 /\ inp = outp)]

\* self.conv of a SandGlass, lines 80-95 (the convolutions; BatchNorm2d and
\* ReLU6 keep the shape)
SandGlass_conv(b) ==
  <<Conv2d(b.inp, b.inp, 3, 1, 1), Conv2d(b.inp, b.hidden_dim, 1, 1, 0),
    Conv2d(b.hidden_dim, b.oup, 1, 1, 0), Conv2d(b.oup, b.oup, 3, b.stride, 1)>>

\* self.conv of an InvertResidual, lines 51-63
InvertResidual_conv(b) ==
  (IF b.expand_ratio # 1 THEN <<BasicConv(b.inp, b.hidden_dim, 1, 1, 0)>>
   ELSE <<>>)
  \o <<BasicConv(b.hidden_dim, b.hidden_dim, 3, b.stride, 1),
       Conv2d(b.hidden_dim, b.oup, 1, 1, 0)>>

\* self.conv(x): the sub-layers in order
RECURSIVE conv_forward(_, _)
conv_forward(conv, x) ==
  IF conv = <<>> \/ x = Err THEN x
  ELSE LET out == Conv2d_forward(Head(conv), x)
       IN IF out = Err THEN Err ELSE conv_forward(Tail(conv), out)

\* The flag forward branches on: self.identity of a SandGlass,
\* self.use_res_connect of an InvertResidual.
residual(b) ==
  IF b.kind = "InvertResidual" THEN b.use_res_connect ELSE b.identity

\* The return statement forward executes (lines 65-69 and 97-101).
forward_return(b) ==
  IF residual(b) THEN "return x + self.conv(x)" ELSE "return self.conv(x)"

\* forward(x) of a block built on its own
block_forward(b, conv, x) ==
  IF residual(b) THEN Add(x, conv_forward(conv, x)) ELSE conv_forward(conv, x)

\* No block: nothing constructed, no sub-layer, no call made.
NoBlock ==
  [args |-> <<>>, stride |-> 0, b |-> <<>>, conv |-> <<>>,
   x |-> Err, out |-> Err, ret |-> ""]

BlockKinds == {"SandGlass", "InvertResidual"}
BlockChannels == {8, 16}
BlockRatios == {1, 6}
Strides == 0..MaxStride
BlockInputs == {1, 2, 7, 8}

(* ------------------- MobileNext.py: MobileNeXt detector ---------------- *)
\* The names bound at the top level of MobileNext.py once the module has
\* been imported: its imports (lines 9-10), __all__, and every def and class.
MobileNext_globals ==
  {"nn", "math", "__all__", "_make_divisible", "conv_3x3_bn", "SandGlass",
   "MobileNeXt", "mobilenetv2_10", "IDAUp", "fill_up_weights", "MobileNetUp",
   "CenterNet", "get_pose_net"}

\* _make_divisible(v, divisor) of MobileNext.py, min_value left at None
MobileNext_make_divisible(v, divisor) ==
  LET min_value == divisor
      rounded == ((v + divisor \div 2) \div divisor) * divisor
      new_v == IF min_value > rounded THEN min_value ELSE rounded
  IN IF 10 * new_v < 9 * v THEN new_v + divisor ELSE new_v

\* self.cfgs of MobileNeXt.__init__: rows t, c, n, s
cfgs ==
  << <<2, 96, 1, 2>>, <<6, 144, 1, 1>>, <<6, 192, 3, 2>>, <<6, 288, 3, 2>>,
     <<6, 384, 4, 1>>, <<6, 576, 4, 2>>, <<6, 960, 3, 1>>, <<6, 1280, 1, 1>> >>

\* conv_3x3_bn(inp, oup, stride) as an element of the layers list
conv_3x3_bn(inp, oup, stride) ==
  [kind |-> "conv_3x3_bn", inp |-> inp, oup |-> oup, stride |-> stride,
   hidden_dim |-> 0, identity |-> FALSE]

\* SandGlass(inp, oup, stride, reduction_ratio) of MobileNext.py
MobileNext_SandGlass(inp, oup, stride, reduction_ratio) ==
  [kind |-> "SandGlass", inp |-> inp, oup |-> oup, stride |-> stride,
   hidden_dim |-> inp \div reduction_ratio,
   identity |-> (stride = 1 /\ inp = oup)]

\* MobileNext.get_pose_net before it is called: no object, and the
\* attributes set on the MobileNeXt object so far.
NoMobileNeXt ==
  [called |-> FALSE, head_conv |-> 0, num_classes |-> 0, input_channel |-> 0,
   output_channel |-> 0, layers |-> <<>>, row |-> 0, i |-> 0, attrs |-> {},
   base |-> FALSE, dla_up |-> FALSE, reads |-> {}]

(* ------------- MobileNetv2.__init__ on a setting literal -------------- *)
\* The blocks one row (t, c, n, s) appends, lines 134-138.
row_blocks(input_channel, row) ==
  LET ouput_channel == make_divisible(row[2] * 1, 8)
  IN [i \in 1..row[3] |->
        SandGlass(IF i = 1 THEN input_channel ELSE ouput_channel,
                  ouput_channel, IF i = 1 THEN row[4] ELSE 1, row[1])]

\* Lines 133-143 from row id on (0-based), with the layers built so far.
\* Unpacking a row into (t, c, n, s) raises ValueError unless it has 4
\* elements; the first block of a row gets stride s, whose assertion (line
\* 75) fails before the block has any sub-layer.
RECURSIVE build_features(_, _, _, _, _)
build_features(setting, id, input_channel, built, feat_channel) ==
  IF id = Len(setting)
  THEN [exc |-> "", line |-> 0, built |-> built, feat_channel |-> feat_channel]
  ELSE LET row == setting[id + 1]
       IN IF Len(row) # 4
          THEN [exc |-> "ValueError", line |-> 133, built |-> built,
                feat_channel |-> feat_channel]
          ELSE IF row[3] > 0 /\ row[4] \notin {1, 2}
          THEN [exc |-> "AssertionError", line |-> 75, built |-> built,
                feat_channel |-> feat_channel]
          ELSE LET ouput_channel == make_divisible(row[2] * 1, 8)
                   hit == \E k \in 1..Len(feat_id) : feat_id[k] = id
               IN build_features(
                    setting, id + 1,
                    IF row[3] > 0 THEN ouput_channel ELSE input_channel,
                    built \o row_blocks(input_channel, row),
                    IF hit THEN Append(feat_channel, ouput_channel)
                    ELSE feat_channel)

\* A constructor without the check of lines 124-126.
MobileNetv2_init_unchecked(setting) ==
  LET input_channel == make_divisible(32 * 1, 8)
  IN build_features(setting, 0, input_channel, <<FirstConv(input_channel)>>,
                    <<>>)

\* MobileNetv2.__init__ with inverted_residual_setting bound to setting:
\* the check of lines 124-126, the first layer, the block loop.
MobileNetv2_init(setting) ==
  IF Len(setting) = 0 \/ Len(setting[1]) # 4
  THEN [exc |-> "ValueError", line |-> 125, built |-> <<>>,
        feat_channel |-> <<>>]
  ELSE LET input_channel == make_divisible(32 * 1, 8)
       IN build_features(setting, 0, input_channel,
                         <<FirstConv(input_channel)>>, <<>>)

NoMobileNetv2 ==
  [called |-> FALSE, setting |-> <<>>, exc |-> "", line |-> 0,
   built |-> <<>>, feat_channel |-> <<>>]

\* Rows a setting literal may hold: well-formed rows, rows of 3 and of 5
\* elements, and rows whose stride is neither 1 nor 2.
Rows ==
  {<<1, 16, 1, 1>>, <<6, 24, 2, 2>>, <<6, 24, 2>>, <<6, 24, 2, 2, 1>>,
   <<6, 24, 1, 3>>, <<6, 24, 1, 0>>}

Settings ==
  UNION {[1..n -> Rows] : n \in 0..MaxRows} \cup {inverted_residual_setting}

(* ---------------------- _make_divisible, directly --------------------- *)
\* The channel counts both constructors hand to _make_divisible with
\* width_mult = 1.0: 32 for the first layer and column c of each setting.
BuiltInChannels ==
  {32} \cup {inverted_residual_setting[k][2] :
               k \in 1..Len(inverted_residual_setting)}
       \cup {cfgs[k][2] : k \in 1..Len(cfgs)}

NoDivisible == [v |-> 0, divisor |-> 0, new_v |-> 0, MobileNext_new_v |-> 0]

(* ------------------------------ initial state ------------------------- *)
\* The object before any constructor has run.
NoNet == PoseResNet_init("", <<0, 0, 0, 0>>, 0, 0, <<>>, <<>>)

NoFwd ==
  [H |-> 0, x |-> Err, x0 |-> Err, x1 |-> Err, x2 |-> Err, x3 |-> Err,
   x4 |-> Err, add1 |-> <<0, 0>>, add2 |-> <<0, 0>>, out |-> <<>>]

Inputs == 1..MaxH
Classes == 1..MaxClasses
HeadConvs == 0..MaxHeadConv

Init ==
  /\ pc = "idle"
  /\ exc = ""
  /\ net = NoNet
  /\ fwd = NoFwd
  /\ base = NoBase
  /\ dla_up = NoUp
  /\ cnet = NoCenterNet
  /\ mfwd = NoMfwd
  /\ up = NoConvTranspose2d
  /\ lm = NoLoad
  /\ blk = NoBlock
  /\ nx = NoMobileNeXt
  /\ mb = NoMobileNetv2
  /\ dv = NoDivisible

(* ----------------------- construction entry points -------------------- *)
\* PoseResNet(block, layers, head_conv, num_classes) called directly with a
\* row of resnet_spec; init_weights is not called.
PoseResNet(num_layers, head_conv, num_classes) ==
  /\ pc = "idle"
  /\ \E d1 \in BiasVectors(head_conv), d2 \in BiasVectors(num_classes) :
       net' = PoseResNet_init(resnet_spec[num_layers].block,
                              resnet_spec[num_layers].layers,
                              head_conv, num_classes, d1, d2)
  /\ pc' = "PoseResNet"
  /\ UNCHANGED <<exc, fwd, mobileVars, up, lm, auxVars>>

\* model.init_weights(num_layers) on a directly built model
call_init_weights ==
  /\ pc = "PoseResNet"
  /\ net' = init_weights(net)
  /\ pc' = "built"
  /\ UNCHANGED <<exc, fwd, mobileVars, up, lm, auxVars>>

\* ResNet_FPN.get_pose_net(num_layers, head_conv, num_classes)
get_pose_net(num_layers, head_conv, num_classes) ==
  /\ pc = "idle"
  /\ \E d1 \in BiasVectors(head_conv), d2 \in BiasVectors(num_classes) :
       net' = init_weights(
                PoseResNet_init(resnet_spec[num_layers].block,
                                resnet_spec[num_layers].layers,
                                head_conv, num_classes, d1, d2))
  /\ pc' = "built"
  /\ UNCHANGED <<exc, fwd, mobileVars, up, lm, auxVars>>

\* ResNet_FPN.resnet_18(): the 64 + 80 initial bias entries are all
\* overwritten by init_weights, so one draw per convolution stands for them.
resnet_18 ==
  /\ pc = "idle"
  /\ \E v1 \in DefaultBias, v2 \in DefaultBias :
       net' = init_weights(
                PoseResNet_init("BasicBlock", <<2, 2, 2, 2>>, 64, 80,
                                Fill(64, v1), Fill(80, v2)))
  /\ pc' = "built"
  /\ UNCHANGED <<exc, fwd, mobileVars, up, lm, auxVars>>

(* --------------------------- PoseResNet.forward ----------------------- *)
Raise(e) == pc' = "raised" /\ exc' = e

\* Applies a head (a list of convolutions) to x.
RECURSIVE Head_forward(_, _)
Head_forward(head, x) ==
  IF head = <<>> \/ x = Err THEN x
  ELSE LET out == Conv2d_forward(Head(head).conv, x)
       IN IF out = Err THEN Err ELSE Head_forward(Tail(head), out)

\* One entry of the returned list: the head's name, its output and the
\* tensor it was computed from.
HeadOut(name, head, x) ==
  [head |-> name, t |-> Head_forward(head, x), input |-> x]

\* lines 186-189: conv1, bn1, relu, maxpool on an H x H image
forward_stem(H) ==
  /\ pc \in {"PoseResNet", "built"}
  /\ LET x == Conv2d_forward(net.conv1, Tensor(3, H))
     IN fwd' = [fwd EXCEPT !.H = H, !.x = x, !.x0 = MaxPool2d_forward(x)]
  /\ pc' = "layer1"
  /\ UNCHANGED <<exc, net, mobileVars, up, lm, auxVars>>

\* line 191
forward_layer1 ==
  /\ pc = "layer1"
  /\ LET x1 == Sequential_forward(net.layer1, fwd.x0)
     IN /\ fwd' = [fwd EXCEPT !.x1 = x1]
        /\ IF x1 = Err THEN Raise("RuntimeError")
           ELSE pc' = "layer2" /\ exc' = exc
  /\ UNCHANGED <<net, mobileVars, up, lm, auxVars>>

\* line 192
forward_layer2 ==
  /\ pc = "layer2"
  /\ LET x2 == Sequential_forward(net.layer2, fwd.x1)
     IN /\ fwd' = [fwd EXCEPT !.x2 = x2]
        /\ IF x2 = Err THEN Raise("RuntimeError")
           ELSE pc' = "layer3" /\ exc' = exc
  /\ UNCHANGED <<net, mobileVars, up, lm, auxVars>>

\* line 193
forward_layer3 ==
  /\ pc = "layer3"
  /\ LET x3 == Sequential_forward(net.layer3, fwd.x2)
     IN /\ fwd' = [fwd EXCEPT !.x3 = x3]
        /\ IF x3 = Err THEN Raise("RuntimeError")
           ELSE pc' = "layer4" /\ exc' = exc
  /\ UNCHANGED <<net, mobileVars, up, lm, auxVars>>

\* line 194
forward_layer4 ==
  /\ pc = "layer4"
  /\ LET x4 == Sequential_forward(net.layer4, fwd.x3)
     IN /\ fwd' = [fwd EXCEPT !.x4 = x4]
        /\ IF x4 = Err THEN Raise("RuntimeError")
           ELSE pc' = "deconv1" /\ exc' = exc
  /\ UNCHANGED <<net, mobileVars, up, lm, auxVars>>

\* line 197: x = self.deconv_layers1(x4)
forward_deconv1 ==
  /\ pc = "deconv1"
  /\ LET x == ConvTranspose2d_forward(net.deconv_layers1, fwd.x4)
     IN /\ fwd' = [fwd EXCEPT !.x = x]
        /\ IF x = Err THEN Raise("RuntimeError")
           ELSE pc' = "add1" /\ exc' = exc
  /\ UNCHANGED <<net, mobileVars, up, lm, auxVars>>

\* line 199: x = self.fpn_conv1(x3) + x
forward_add1 ==
  /\ pc = "add1"
  /\ LET lat == Conv2d_forward(net.fpn_conv1, fwd.x3)
         x == Add(lat, fwd.x)
     IN /\ fwd' = [fwd EXCEPT !.x = x, !.add1 = <<lat.size, fwd.x.size>>]
        /\ IF x = Err THEN Raise("RuntimeError")
           ELSE pc' = "deconv2" /\ exc' = exc
  /\ UNCHANGED <<net, mobileVars, up, lm, auxVars>>

\* line 200: x = self.deconv_layers2(x)
forward_deconv2 ==
  /\ pc = "deconv2"
  /\ LET x == ConvTranspose2d_forward(net.deconv_layers2, fwd.x)
     IN /\ fwd' = [fwd EXCEPT !.x = x]
        /\ IF x = Err THEN Raise("RuntimeError")
           ELSE pc' = "add2" /\ exc' = exc
  /\ UNCHANGED <<net, mobileVars, up, lm, auxVars>>

\* line 201: x = self.fpn_conv2(x2) + x
forward_add2 ==
  /\ pc = "add2"
  /\ LET lat == Conv2d_forward(net.fpn_conv2, fwd.x2)
         x == Add(lat, fwd.x)
     IN /\ fwd' = [fwd EXCEPT !.x = x, !.add2 = <<lat.size, fwd.x.size>>]
        /\ IF x = Err THEN Raise("RuntimeError")
           ELSE pc' = "deconv3" /\ exc' = exc
  /\ UNCHANGED <<net, mobileVars, up, lm, auxVars>>

\* line 202: x = self.deconv_layers3(x)
forward_deconv3 ==
  /\ pc = "deconv3"
  /\ LET x == ConvTranspose2d_forward(net.deconv_layers3, fwd.x)
     IN /\ fwd' = [fwd EXCEPT !.x = x]
        /\ IF x = Err THEN Raise("RuntimeError")
           ELSE pc' = "heads" /\ exc' = exc
  /\ UNCHANGED <<net, mobileVars, up, lm, auxVars>>

\* A returned list with the first two heads in the other order.
forward_out_swapped(n, x) ==
  <<<<HeadOut("regs", n.regs, x), HeadOut("hmap", n.hmap, x),
      HeadOut("w_h_", n.w_h_, x)>>>>

\* The list built at line 203.
forward_out(n, x) ==
  <<<<HeadOut("hmap", n.hmap, x), HeadOut("regs", n.regs, x),
      HeadOut("w_h_", n.w_h_, x)>>>>

\* lines 203-204: out = [[hmap(x), regs(x), w_h_(x)]]; return out
forward_heads ==
  /\ pc = "heads"
  /\ LET out == forward_out(net, fwd.x)
     IN IF \E i \in 1..Len(out[1]) : out[1][i].t = Err
        THEN Raise("RuntimeError") /\ fwd' = fwd
        ELSE /\ fwd' = [fwd EXCEPT !.out = out]
             /\ pc' = "returned"
             /\ exc' = exc
  /\ UNCHANGED <<net, mobileVars, up, lm, auxVars>>

(* ---------------- CenterNet.__init__ of MobileNetv2.py ----------------- *)
\* CenterNet(head_conv, num_classes), up to the first lines of
\* MobileNetv2.__init__ (lines 246-248, 164-165, 105-130).
CenterNet_init(head_conv, num_classes) ==
  /\ pc = "idle"
  /\ cnet' = [cnet EXCEPT !.head_conv = head_conv, !.num_classes = num_classes]
  /\ IF Len(inverted_residual_setting) = 0
        \/ Len(inverted_residual_setting[1]) # 4
     THEN Raise("ValueError") /\ base' = base
     ELSE LET input_channel == make_divisible(32 * 1, 8)
          IN /\ base' = [base EXCEPT !.input_channel = input_channel,
                                     !.features = <<FirstConv(input_channel)>>,
                                     !.built = <<FirstConv(input_channel)>>,
                                     !.id = 0, !.i = 0]
             /\ pc' = "mb_block"
             /\ exc' = exc
  /\ UNCHANGED <<resnetVars, dla_up, mfwd, up, lm, auxVars>>

\* lines 134-138: one pass of "for i in range(n)"; SandGlass.__init__
\* asserts its stride first (line 75).
MobileNetv2_block ==
  /\ pc = "mb_block"
  /\ LET row == inverted_residual_setting[base.id + 1]
         ouput_channel == make_divisible(row[2] * 1, 8)
         stride == IF base.i = 0 THEN row[4] ELSE 1
         b == SandGlass(base.input_channel, ouput_channel, stride, row[1])
     IN /\ base.i < row[3]
        /\ IF stride \notin {1, 2}
           THEN Raise("AssertionError") /\ base' = base
           ELSE /\ base' = [base EXCEPT !.features = Append(@, b),
                                        !.built = Append(@, b),
                                        !.input_channel = ouput_channel,
                                        !.i = @ + 1]
                /\ UNCHANGED <<pc, exc>>
  /\ UNCHANGED <<resnetVars, dla_up, cnet, mfwd, up, lm, auxVars>>

\* lines 140-143: the end of a row of the setting; after the last row the
\* weight initialisation (lines 146-153) and the return to CenterNet.__init__
MobileNetv2_row_end ==
  /\ pc = "mb_block"
  /\ LET row == inverted_residual_setting[base.id + 1]
         ouput_channel == make_divisible(row[2] * 1, 8)
         hit == \E k \in 1..Len(feat_id) : feat_id[k] = base.id
     IN /\ base.i = row[3]
        /\ base' = [base EXCEPT
                      !.feature = IF hit THEN (base.id :> base.features) @@ @
                                  ELSE @,
                      !.feat_channel = IF hit THEN Append(@, ouput_channel)
                                       ELSE @,
                      !.features = IF hit THEN <<>> ELSE @,
                      !.id = @ + 1, !.i = 0]
  /\ pc' = IF base.id + 1 = Len(inverted_residual_setting)
           THEN "up_init" ELSE "mb_block"
  /\ UNCHANGED <<exc, resnetVars, dla_up, cnet, mfwd, up, lm, auxVars>>

\* A fresh weight tensor of shape (n0, n1, k, k); one draw stands for the
\* values of the whole tensor.
FreshWeights(n0, n1, k) ==
  {[idx \in WeightIndex(n0, n1, k) |-> d] : d \in DefaultWeight}

\* MobileNetUp.__init__(channels, out_dim), lines 210-219
MobileNetUp_init ==
  /\ pc = "up_init"
  /\ LET channels == Reverse(base.feat_channel)
         out_dim == cnet.head_conv
     IN \E w0 \in [1..(Len(channels) - 1) -> FreshWeights(out_dim, out_dim, 2)] :
          dla_up' = [channels |-> channels, out_dim |-> out_dim,
                     conv |-> BasicConv(channels[1], out_dim, 1, 1, 0),
                     conv_last |-> BasicConv(out_dim, out_dim, 3, 1, 1),
                     up |-> [k \in 1..(Len(channels) - 1) |->
                               IDAUp(out_dim, channels[k + 1], w0[k])],
                     m |-> 0]
  /\ pc' = "up_modules"
  /\ UNCHANGED <<exc, resnetVars, base, cnet, mfwd, up, lm, auxVars>>

\* fill_up_weights(m) on a ConvTranspose2d module m
filled(m) ==
  [m EXCEPT !.w = fill_up_weights(m.w, m.in_channels, m.kernel_size),
            !.fills = @ + 1]

\* lines 221-230, the modules of up_<m>: its ConvTranspose2d goes through
\* fill_up_weights (the Conv2d and BatchNorm2d parameters are not tracked).
MobileNetUp_init_module ==
  /\ pc = "up_modules"
  /\ dla_up.m < Len(dla_up.up)
  /\ dla_up' = [dla_up EXCEPT !.up[dla_up.m + 1].up = filled(@), !.m = @ + 1]
  /\ UNCHANGED <<pc, exc, resnetVars, base, cnet, mfwd, up, lm, auxVars>>

\* The convolution CenterNet.__init__ builds for a head, lines 254-261.
head_fc(head, head_conv, classes) ==
  IF head = "hm"
  THEN <<HeadConv(Conv2d(head_conv, classes, 1, 1, 0), Fill(classes, HMAP_BIAS))>>
  ELSE <<HeadConv(Conv2d(head_conv, classes, 1, 1, 0), Fill(classes, 0))>>

\* lines 251-262: self.heads and the three head convolutions
CenterNet_init_heads ==
  /\ pc = "up_modules"
  /\ dla_up.m = Len(dla_up.up)
  /\ cnet' = [cnet EXCEPT
                !.heads = <<"hm", "wh", "reg">>,
                !.hm = head_fc("hm", cnet.head_conv, cnet.num_classes),
                !.wh = head_fc("wh", cnet.head_conv, 2),
                !.reg = head_fc("reg", cnet.head_conv, 2)]
  /\ pc' = "CenterNet"
  /\ UNCHANGED <<exc, resnetVars, base, dla_up, mfwd, up, lm, auxVars>>

(* ---------------- CenterNet.forward of MobileNetv2.py ------------------ *)
\* line 265 and MobileNetv2.forward line 156, on an H x H image
CenterNet_forward(H) ==
  /\ pc = "CenterNet"
  /\ mfwd' = [mfwd EXCEPT !.H = H, !.x = Tensor(3, H), !.y = <<>>, !.k = 0]
  /\ pc' = "base_forward"
  /\ UNCHANGED <<exc, resnetVars, base, dla_up, cnet, up, lm, auxVars>>

\* MobileNetv2.forward lines 157-160: one pass of "for id in self.feat_id"
MobileNetv2_forward_step ==
  /\ pc = "base_forward"
  /\ mfwd.k < Len(feat_id)
  /\ LET id == feat_id[mfwd.k + 1]
     IN IF id \notin DOMAIN base.feature
        THEN Raise("AttributeError") /\ mfwd' = mfwd
        ELSE LET x == Features_forward(base.feature[id], mfwd.x)
             IN IF x = Err
                THEN Raise("RuntimeError") /\ mfwd' = mfwd
                ELSE /\ mfwd' = [mfwd EXCEPT !.x = x, !.y = Append(@, x),
                                              !.k = @ + 1]
                     /\ UNCHANGED <<pc, exc>>
  /\ UNCHANGED <<resnetVars, base, dla_up, cnet, up, lm, auxVars>>

\* MobileNetv2.forward line 161, CenterNet.forward line 266 and
\* MobileNetUp.forward lines 233-236
MobileNetUp_forward ==
  /\ pc = "base_forward"
  /\ mfwd.k = Len(feat_id)
  /\ LET layers == Reverse(mfwd.y)
     IN IF ~(Len(layers) > 1)
        THEN Raise("AssertionError") /\ mfwd' = mfwd
        ELSE LET x == Conv2d_forward(dla_up.conv, layers[1])
             IN /\ mfwd' = [mfwd EXCEPT !.layers = layers, !.x = x, !.i = 0,
                                         !.fused = <<>>]
                /\ IF x = Err THEN Raise("RuntimeError")
                   ELSE pc' = "dla_loop" /\ exc' = exc
  /\ UNCHANGED <<resnetVars, base, dla_up, cnet, up, lm, auxVars>>

\* MobileNetUp.forward lines 238-240: one pass of the fusion loop
MobileNetUp_forward_step ==
  /\ pc = "dla_loop"
  /\ mfwd.i < Len(mfwd.layers) - 1
  /\ IF mfwd.i + 1 > Len(dla_up.up)
     THEN Raise("AttributeError") /\ mfwd' = mfwd
     ELSE LET x == IDAUp_forward(dla_up.up[mfwd.i + 1], mfwd.x,
                                 mfwd.layers[mfwd.i + 2])
          IN /\ mfwd' = [mfwd EXCEPT !.x = x, !.i = @ + 1,
                                      !.fused = Append(@, <<mfwd.i, mfwd.i + 1>>)]
             /\ IF x = Err THEN Raise("RuntimeError")
                ELSE UNCHANGED <<pc, exc>>
  /\ UNCHANGED <<resnetVars, base, dla_up, cnet, up, lm, auxVars>>

\* MobileNetUp.forward lines 241-242
MobileNetUp_forward_last ==
  /\ pc = "dla_loop"
  /\ mfwd.i = Len(mfwd.layers) - 1
  /\ LET x == Conv2d_forward(dla_up.conv_last, mfwd.x)
     IN /\ mfwd' = [mfwd EXCEPT !.x = x]
        /\ IF x = Err THEN Raise("RuntimeError")
           ELSE pc' = "m_heads" /\ exc' = exc
  /\ UNCHANGED <<resnetVars, base, dla_up, cnet, up, lm, auxVars>>

\* self.__getattr__(head)
head_of(c, head) ==
  IF head = "hm" THEN c.hm ELSE IF head = "wh" THEN c.wh ELSE c.reg

\* The list built at lines 268-271.
CenterNet_out(c, x) ==
  [k \in 1..Len(c.heads) |-> HeadOut(c.heads[k], head_of(c, c.heads[k]), x)]

\* CenterNet.forward lines 268-273
CenterNet_forward_heads ==
  /\ pc = "m_heads"
  /\ LET out == CenterNet_out(cnet, mfwd.x)
     IN IF \E k \in 1..Len(out) : out[k].t = Err
        THEN Raise("RuntimeError") /\ mfwd' = mfwd
        ELSE /\ mfwd' = [mfwd EXCEPT !.out = out]
             /\ pc' = "m_returned"
             /\ exc' = exc
  /\ UNCHANGED <<resnetVars, base, dla_up, cnet, up, lm, auxVars>>

(* ------------------------ fill_up_weights, directly -------------------- *)
\* fill_up_weights(up) on a fresh nn.ConvTranspose2d(n, n, kernel_size=k)
call_fill_up_weights(n, k) ==
  /\ pc = "idle"
  /\ \E w0 \in FreshWeights(n, n, k) :
       up' = filled(ConvTranspose2d(n, n, k, 2, w0))
  /\ pc' = "filled"
  /\ UNCHANGED <<exc, resnetVars, mobileVars, lm, auxVars>>

(* ------------------------------ load_model ---------------------------- *)
KeyNames == 1..MaxKeys
Shapes == {1, 2}
Values == {tensor(1, 10), tensor(2, 20)}

\* State dictionaries: up to MaxKeys items with distinct keys.
StateDicts ==
  UNION {{d \in [1..n -> KeyNames \X Values] :
            \A a, b \in 1..n : a # b => d[a][1] # d[b][1]} : n \in 0..MaxKeys}

\* load_model(model, state_dict), lines 14-17, for a target model of n
\* entries whose own state dictionary holds freshly built tensors (data 0)
\* of the shapes its layers have.
load_model ==
  /\ pc = "idle"
  /\ \E n \in 0..MaxKeys, state_dict \in StateDicts :
     \E shape \in [1..n -> Shapes] :
       LET new_model == [k \in 1..n |-> <<k, tensor(shape[k], 0)>>]
       IN lm' = [model |-> new_model, state_dict |-> state_dict,
                 new_keys |-> keys(new_model), old_keys |-> keys(state_dict),
                 restore_dict |-> <<>>, id |-> 0, reads |-> {},
                 passed |-> <<>>, called |-> FALSE, built |-> shape]
  /\ pc' = "restore"
  /\ UNCHANGED <<exc, resnetVars, mobileVars, up, auxVars>>

\* lines 18-19: one pass of "for id in range(len(new_keys))"
load_model_step ==
  /\ pc = "restore"
  /\ lm.id < Len(lm.new_keys)
  /\ IF lm.id >= Len(lm.old_keys)
     THEN Raise("IndexError") /\ lm' = lm
     ELSE /\ lm' = [lm EXCEPT
                      !.restore_dict =
                         set(@, lm.new_keys[lm.id + 1],
                             restore_value(lm.state_dict, lm.old_keys, lm.id)),
                      !.reads = @ \cup {lm.id},
                      !.id = @ + 1]
          /\ UNCHANGED <<pc, exc>>
  /\ UNCHANGED <<resnetVars, mobileVars, up, auxVars>>

\* line 20: model.load_state_dict(restore_dict) copies each value onto the
\* model's entry of the same key unless their shapes differ, and raises
\* RuntimeError after the pass if any did.
load_state_dict ==
  /\ pc = "restore"
  /\ lm.id = Len(lm.new_keys)
  /\ LET copied(k) ==
           /\ HasKey(lm.restore_dict, lm.model[k][1])
           /\ ~size_mismatch(lm.model[k][2],
                             get(lm.restore_dict, lm.model[k][1]))
         error_msgs ==
           {k \in 1..Len(lm.model) :
              /\ HasKey(lm.restore_dict, lm.model[k][1])
              /\ size_mismatch(lm.model[k][2],
                               get(lm.restore_dict, lm.model[k][1]))}
     IN /\ lm' = [lm EXCEPT
                    !.passed = lm.restore_dict,
                    !.called = TRUE,
                    !.model = [k \in 1..Len(lm.model) |->
                                 IF copied(k)
                                 THEN <<lm.model[k][1],
                                        get(lm.restore_dict, lm.model[k][1])>>
                                 ELSE lm.model[k]]]
        /\ IF error_msgs # {} THEN Raise("RuntimeError")
           ELSE pc' = "loaded" /\ exc' = exc
  /\ UNCHANGED <<resnetVars, mobileVars, up, auxVars>>

(* -------------------- a block built and called on its own -------------- *)
\* block(inp, oup, stride, expand_ratio) for block = SandGlass (lines 73-95)
\* or InvertResidual (lines 43-63): InvertResidual stores self.stride, then
\* either class asserts the stride before it computes anything else.
new_block(kind, inp, oup, stride, expand_ratio) ==
  /\ pc = "idle"
  /\ LET self_stride == IF kind = "InvertResidual" THEN stride ELSE 0
         args == <<kind, inp, oup, stride, expand_ratio>>
     IN IF stride \notin {1, 2}
        THEN /\ Raise("AssertionError")
             /\ blk' = [NoBlock EXCEPT !.args = args, !.stride = self_stride]
        ELSE LET b == IF kind = "InvertResidual"
                      THEN InvertResidual(inp, oup, stride, expand_ratio)
                      ELSE SandGlass(inp, oup, stride, expand_ratio)
                 conv == IF kind = "InvertResidual"
                         THEN InvertResidual_conv(b) ELSE SandGlass_conv(b)
             IN /\ blk' = [NoBlock EXCEPT !.args = args, !.stride = self_stride,
                                          !.b = b, !.conv = conv]
                /\ pc' = "block"
                /\ exc' = exc
  /\ UNCHANGED <<resnetVars, mobileVars, up, lm, nx, mb, dv>>

\* block.forward(x) on an input of blk.b.inp channels and size H
call_block(H) ==
  /\ pc = "block"
  /\ LET x == Tensor(blk.b.inp, H)
         out == block_forward(blk.b, blk.conv, x)
     IN /\ blk' = [blk EXCEPT !.x = x, !.out = out,
                              !.ret = forward_return(blk.b)]
        /\ IF out = Err THEN Raise("RuntimeError")
           ELSE pc' = "block_returned" /\ exc' = exc
  /\ UNCHANGED <<resnetVars, mobileVars, up, lm, nx, mb, dv>>

(* ------------------ get_pose_net of MobileNext.py ----------------------- *)
\* A global name read by running code of MobileNext.py is bound or the read
\* raises NameError.
Bound(names) == names \subseteq MobileNext_globals

\* get_pose_net(head_conv, num_classes) -> CenterNet.__init__ (lines
\* 241-243, 209-211) -> mobilenetv2_10() (129-130) -> MobileNeXt.__init__ up
\* to the first layer (76-95).
MobileNext_get_pose_net(head_conv, num_classes) ==
  /\ pc = "idle"
  /\ LET names == {"CenterNet", "nn", "mobilenetv2_10", "MobileNeXt",
                   "_make_divisible", "conv_3x3_bn", "SandGlass"}
         input_channel == MobileNext_make_divisible(32 * 1, 8)
     IN IF ~Bound(names)
        THEN /\ Raise("NameError")
             /\ nx' = [nx EXCEPT !.called = TRUE, !.reads = names]
        ELSE /\ nx' = [nx EXCEPT
                         !.called = TRUE, !.head_conv = head_conv,
                         !.num_classes = num_classes, !.reads = names,
                         !.attrs = {"cfgs"},
                         !.input_channel = input_channel,
                         !.layers = <<conv_3x3_bn(3, input_channel, 2)>>]
             /\ pc' = "nx_block"
             /\ exc' = exc
  /\ UNCHANGED <<resnetVars, mobileVars, up, lm, blk, mb, dv>>

\* lines 97-100: one pass of "for i in range(n)"; SandGlass.__init__
\* asserts its stride first (line 46).
MobileNeXt_block ==
  /\ pc = "nx_block"
  /\ LET row == cfgs[nx.row + 1]
         output_channel == MobileNext_make_divisible(row[2] * 1, 8)
         stride == IF nx.i = 0 THEN row[4] ELSE 1
     IN /\ nx.i < row[3]
        /\ IF stride \notin {1, 2}
           THEN Raise("AssertionError") /\ nx' = nx
           ELSE /\ nx' = [nx EXCEPT
                            !.layers = Append(@, MobileNext_SandGlass(
                                         nx.input_channel, output_channel,
                                         stride, row[1])),
                            !.input_channel = output_channel,
                            !.output_channel = output_channel,
                            !.i = @ + 1]
                /\ UNCHANGED <<pc, exc>>
  /\ UNCHANGED <<resnetVars, mobileVars, up, lm, blk, mb, dv>>

\* The end of a row of self.cfgs; after the last row lines 101-106 set
\* features, avgpool and classifier, mobilenetv2_10 returns the model
\* (pretrained is False, lines 131-135) and line 211 binds it to self.base.
MobileNeXt_row_end ==
  /\ pc = "nx_block"
  /\ nx.i = cfgs[nx.row + 1][3]
  /\ IF nx.row + 1 < Len(cfgs)
     THEN /\ nx' = [nx EXCEPT !.row = @ + 1, !.i = 0]
          /\ UNCHANGED <<pc, exc>>
     ELSE /\ nx' = [nx EXCEPT !.row = @ + 1, !.i = 0, !.base = TRUE,
                              !.attrs = @ \cup {"features", "avgpool",
                                                "classifier"}]
          /\ pc' = "nx_base"
          /\ exc' = exc
  /\ UNCHANGED <<resnetVars, mobileVars, up, lm, blk, mb, dv>>

\* CenterNet.__init__, lines 212-213: channels = self.base.feat_channel,
\* then MobileNetUp(channels, out_dim=head_conv), whose __init__ reads the
\* global BasicConv at line 176.
MobileNext_CenterNet_init ==
  /\ pc = "nx_base"
  /\ IF "feat_channel" \notin nx.attrs
     THEN /\ Raise("AttributeError")
          /\ nx' = [nx EXCEPT !.reads = {"feat_channel"}]
     ELSE IF ~Bound({"MobileNetUp", "BasicConv"})
     THEN /\ Raise("NameError")
          /\ nx' = [nx EXCEPT !.reads = {"MobileNetUp", "BasicConv"}]
     ELSE /\ nx' = [nx EXCEPT !.dla_up = TRUE,
                              !.reads = {"MobileNetUp", "BasicConv"}]
          /\ pc' = "nx_up"
          /\ exc' = exc
  /\ UNCHANGED <<resnetVars, mobileVars, up, lm, blk, mb, dv>>

(* --------------- MobileNetv2(), for a given setting literal ------------ *)
\* MobileNetv2(width_mult=1.0) where the literal of lines 110-119 is setting
MobileNetv2(setting) ==
  /\ pc = "idle"
  /\ LET r == MobileNetv2_init(setting)
     IN /\ mb' = [called |-> TRUE, setting |-> setting, exc |-> r.exc,
                  line |-> r.line, built |-> r.built,
                  feat_channel |-> r.feat_channel]
        /\ IF r.exc # "" THEN Raise(r.exc)
           ELSE pc' = "MobileNetv2" /\ exc' = exc
  /\ UNCHANGED <<resnetVars, mobileVars, up, lm, blk, nx, dv>>

(* ---------------------- _make_divisible, directly --------------------- *)
\* _make_divisible(v, divisor) of MobileNetv2.py and of MobileNext.py
call_make_divisible(v, divisor) ==
  /\ pc = "idle"
  /\ dv' = [v |-> v, divisor |-> divisor, new_v |-> make_divisible(v, divisor),
            MobileNext_new_v |-> MobileNext_make_divisible(v, divisor)]
  /\ pc' = "divided"
  /\ UNCHANGED <<exc, resnetVars, mobileVars, up, lm, blk, nx, mb>>

Next ==
  \/ \E n \in DOMAIN resnet_spec, h \in HeadConvs, c \in Classes :
       PoseResNet(n, h, c)
  \/ call_init_weights
  \/ \E n \in DOMAIN resnet_spec, h \in HeadConvs, c \in Classes :
       get_pose_net(n, h, c)
  \/ resnet_18
  \/ \E H \in Inputs : forward_stem(H)
  \/ forward_layer1
  \/ forward_layer2
  \/ forward_layer3
  \/ forward_layer4
  \/ forward_deconv1
  \/ forward_add1
  \/ forward_deconv2
  \/ forward_add2
  \/ forward_deconv3
  \/ forward_heads
  \/ \E h \in 1..MaxOutDim, c \in Classes : CenterNet_init(h, c)
  \/ MobileNetv2_block
  \/ MobileNetv2_row_end
  \/ MobileNetUp_init
  \/ MobileNetUp_init_module
  \/ CenterNet_init_heads
  \/ \E H \in Inputs : CenterNet_forward(H)
  \/ MobileNetv2_forward_step
  \/ MobileNetUp_forward
  \/ MobileNetUp_forward_step
  \/ MobileNetUp_forward_last
  \/ CenterNet_forward_heads
  \/ \E n \in 1..MaxOutDim, k \in 1..MaxK : call_fill_up_weights(n, k)
  \/ load_model
  \/ load_model_step
  \/ load_state_dict
  \/ \E kind \in BlockKinds, inp, oup \in BlockChannels, stride \in Strides,
        expand_ratio \in BlockRatios :
       new_block(kind, inp, oup, stride, expand_ratio)
  \/ \E H \in BlockInputs : call_block(H)
  \/ \E h \in 1..MaxOutDim, c \in Classes : MobileNext_get_pose_net(h, c)
  \/ MobileNeXt_block
  \/ MobileNeXt_row_end
  \/ MobileNext_CenterNet_init
  \/ \E setting \in Settings : MobileNetv2(setting)
  \/ \E v \in (1..MaxV) \cup BuiltInChannels,
        divisor \in (1..MaxDivisor) \cup {8} :
       call_make_divisible(v, divisor)

Spec == Init /\ [][Next]_vars

(* ------------------------------- claims ------------------------------- *)
\* Output channel count of a layer built by _make_layer:
\* planes * block.expansion of its last block.
out_channels(layer) ==
  layer[Len(layer)].planes * expansion(layer[Len(layer)].block)

ResNetBuilt == net.block # ""

NoMismatch ==
  /\ fwd.add1[1] = fwd.add1[2]
  /\ fwd.add2[1] = fwd.add2[2]

\* C1: for every num_layers of resnet_spec the built model has matching
\* channel counts at the decoder junctions: layer4 -> deconv_layers1,
\* layer3 -> fpn_conv1, layer2 -> fpn_conv2.
C1_JunctionChannelsMatch ==
  ResNetBuilt =>
    /\ out_channels(net.layer4) = net.deconv_layers1.in_channels
    /\ out_channels(net.layer3) = net.fpn_conv1.in_channels
    /\ out_channels(net.layer2) = net.fpn_conv2.in_channels

\* C2 (as claimed): whenever PoseResNet.forward completes with equal sizes
\* at both lateral additions, the decoder output size S has 4 * S = H.
C2_OutputIsQuarterOfInput ==
  (pc = "returned" /\ NoMismatch) => 4 * fwd.x.size = fwd.H

\* C2 (amended): whenever PoseResNet.forward completes with equal sizes at
\* both lateral additions, 4 * S is the least multiple of 32 not below H
\* (H <= 4 * S < H + 8, 4 * S a multiple of 32), so 4 * S = H exactly when
\* H is a multiple of 32.
C2_OutputIsQuarterOfPaddedInput ==
  (pc = "returned" /\ NoMismatch) =>
    /\ fwd.H <= 4 * fwd.x.size
    /\ 4 * fwd.x.size < fwd.H + 8
    /\ (4 * fwd.x.size) % 32 = 0
    /\ (4 * fwd.x.size = fwd.H <=> fwd.H % 32 = 0)

C2_Witness ==
  /\ pc = "returned"
  /\ NoMismatch
  /\ fwd.H % 32 # 0
  /\ 4 * fwd.x.size = fwd.H + 7

\* C3: for every input size H that is a positive multiple of 32, layer1..
\* layer4 produce maps of size H/4, H/8, H/16, H/32, and at both lateral
\* additions the two operands have the same size.
C3_BackboneStrides ==
  (fwd.H > 0 /\ fwd.H % 32 = 0) =>
    /\ pc \notin {"layer1"} => (fwd.x1 # Err /\ 4 * fwd.x1.size = fwd.H)
    /\ pc \notin {"layer1", "layer2"} =>
         (fwd.x2 # Err /\ 8 * fwd.x2.size = fwd.H)
    /\ pc \notin {"layer1", "layer2", "layer3"} =>
         (fwd.x3 # Err /\ 16 * fwd.x3.size = fwd.H)
    /\ pc \notin {"layer1", "layer2", "layer3", "layer4"} =>
         (fwd.x4 # Err /\ 32 * fwd.x4.size = fwd.H)
    /\ fwd.add1[1] = fwd.add1[2]
    /\ fwd.add2[1] = fwd.add2[2]
    /\ pc \in {"deconv2", "add2", "deconv3", "heads", "returned"} =>
         fwd.add1[1] = fwd.x3.size
    /\ pc \in {"deconv3", "heads", "returned"} => fwd.add2[1] = fwd.x2.size

C3_Witness ==
  /\ pc = "returned"
  /\ fwd.H = 64
  /\ fwd.add1 = <<4, 4>>
  /\ fwd.add2 = <<8, 8>>

\* C5: immediately after construction the bias of the heatmap head's output
\* convolution is -2.19 in every channel, on every construction path.
C5_HeatmapBiasAfterConstruction ==
  /\ ResNetBuilt =>
       \A c \in 1..net.num_classes :
         net.hmap[Len(net.hmap)].bias[c] = HMAP_BIAS
  /\ cnet.hm # <<>> =>
       \A c \in 1..cnet.num_classes : cnet.hm[1].bias[c] = HMAP_BIAS

\* The feature_<id> groups applied in feat_id order, as one list.
RECURSIVE GroupsInOrder(_)
GroupsInOrder(ids) ==
  IF ids = <<>> THEN <<>>
  ELSE base.feature[Head(ids)] \o GroupsInOrder(Tail(ids))

BackboneBuilt == base.id = Len(inverted_residual_setting)

\* C4: MobileNetv2.forward returns exactly len(feat_id) = 4 maps in feat_id
\* order, the i-th with feat_channel[i] channels, feat_channel =
\* [24, 32, 96, 320]; the 17 blocks and the first convolution each belong
\* to exactly one feature_<id> group, and the groups in feat_id order are
\* the blocks in construction order.
C4_BackboneFeatures ==
  /\ BackboneBuilt =>
       /\ Len(feat_id) = 4
       /\ base.feat_channel = <<24, 32, 96, 320>>
       /\ Len(base.built) = 17 + 1
       /\ DOMAIN base.feature = {feat_id[k] : k \in 1..Len(feat_id)}
       /\ GroupsInOrder(feat_id) = base.built
  /\ pc = "base_forward" => Len(mfwd.y) = mfwd.k
  /\ mfwd.H > 0 =>
       \A k \in 1..Len(mfwd.y) : mfwd.y[k].ch = base.feat_channel[k]
  /\ (mfwd.H > 0 /\ pc # "base_forward") => Len(mfwd.y) = Len(feat_id)

C4_Witness ==
  /\ pc = "m_returned"
  /\ mfwd.H = 64
  /\ [k \in 1..Len(mfwd.y) |-> mfwd.y[k].ch] = <<24, 32, 96, 320>>
  /\ [k \in 1..Len(mfwd.y) |-> mfwd.y[k].size] = <<16, 8, 4, 2>>

LoadStarted == pc \in {"restore", "loaded"} \/ (pc = "raised" /\ lm # NoLoad)

\* The restore dictionary has the target's keys in the target's order, and
\* its i-th value is the value of the i-th source item.
RestoredByPosition(d) ==
  /\ keys(d) = lm.new_keys
  /\ keys(d) = keys(lm.model)
  /\ \A k \in 1..Len(d) : d[k][2] = lm.state_dict[k][2]

\* C6 (as claimed): for every target model and every source state
\* dictionary, load_model ends by passing load_state_dict a dictionary with
\* the target's keys, bound by position.
C6_RestoreForEverySource ==
  (LoadStarted /\ pc # "restore") =>
    (lm.called /\ RestoredByPosition(lm.passed))

\* C6 (amended): for every target model and every source state dictionary
\* with at least as many entries as the target, load_model raises nothing
\* and passes load_state_dict a dictionary with the target's keys in the
\* target's order, the i-th bound to the value of the i-th source item.
C6_RestoreWhenSourceLongEnough ==
  (LoadStarted /\ Len(lm.old_keys) >= Len(lm.new_keys)) =>
    /\ exc # "IndexError"
    /\ pc = "restore" =>
         /\ Len(lm.restore_dict) = lm.id
         /\ \A k \in 1..lm.id :
              lm.restore_dict[k] = <<lm.new_keys[k], lm.state_dict[k][2]>>
    /\ pc # "restore" => (lm.called /\ RestoredByPosition(lm.passed))

C6_Witness ==
  /\ pc = "loaded"
  /\ lm.new_keys = <<1, 2>>
  /\ lm.old_keys = <<3, 1, 2>>
  /\ lm.passed = <<<<1, tensor(1, 10)>>, <<2, tensor(2, 20)>>>>

\* C7: the kernel K = w[0, 0, :, :] written by fill_up_weights is the same
\* under row reflection and under column reflection, for every kernel size.
C7_KernelSymmetric ==
  pc = "filled" =>
    \A i, j \in 0..(up.kernel_size - 1) :
      /\ up.w[<<0, 0, i, j>>] = up.w[<<0, 0, up.kernel_size - 1 - i, j>>]
      /\ up.w[<<0, 0, i, j>>] = up.w[<<0, 0, i, up.kernel_size - 1 - j>>]

DecoderBuilt == dla_up.up # <<>> /\ dla_up.m = Len(dla_up.up)

\* C8: after MobileNetUp construction every transposed convolution of the
\* decoder has been through fill_up_weights exactly once, every entry
\* w[c, d, i, j] has the formula's value and no slice w[c, d, :, :] is
\* left as first drawn.
C8_EveryKernelSliceFilled ==
  DecoderBuilt =>
    \A m \in 1..Len(dla_up.up) :
      LET ct == dla_up.up[m].up
      IN /\ ct.fills = 1
         /\ \A idx \in DOMAIN ct.w :
              ct.w[idx] = fill_tap(ct.kernel_size, idx[3])
                            * fill_tap(ct.kernel_size, idx[4])
         /\ \A c \in 0..(ct.in_channels - 1), d \in 0..(ct.out_channels - 1) :
              \E i, j \in 0..(ct.kernel_size - 1) :
                ct.w[<<c, d, i, j>>] # ct.w0[<<c, d, i, j>>]

\* C9: MobileNetUp.forward on the reversed list of n = 4 features runs
\* exactly n - 1 fusion steps, step i using up_<i> and reversed feature
\* i + 1 (lowest resolution first), then ends; the channels reversed at
\* construction agree with the list reversed at forward: the first 1x1
\* convolution takes 320 channels and up_0, up_1, up_2 take 96, 32, 24.
C9_DecoderFusesInOrder ==
  /\ dla_up.up # <<>> =>
       /\ dla_up.channels = Reverse(base.feat_channel)
       /\ dla_up.conv.in_channels = 320
       /\ [k \in 1..Len(dla_up.up) |-> dla_up.up[k].conv.in_channels]
            = <<96, 32, 24>>
  /\ pc \in {"dla_loop", "m_heads", "m_returned"} =>
       /\ Len(mfwd.layers) = 4
       /\ mfwd.layers = Reverse(mfwd.y)
       /\ mfwd.i <= Len(mfwd.layers) - 1
       /\ mfwd.fused = [k \in 1..mfwd.i |-> <<k - 1, k>>]
       /\ mfwd.layers[1].ch = dla_up.conv.in_channels
       /\ \A k \in 1..Len(dla_up.up) :
            /\ mfwd.layers[k + 1].ch = dla_up.up[k].conv.in_channels
            /\ mfwd.layers[k].size <= mfwd.layers[k + 1].size
  /\ pc \in {"m_heads", "m_returned"} =>
       mfwd.fused = <<<<0, 1>>, <<1, 2>>, <<2, 3>>>>
  /\ cnet.head_conv # 0 => exc \notin {"AttributeError", "AssertionError"}

C9_Witness ==
  /\ pc = "m_returned"
  /\ mfwd.H = 32
  /\ mfwd.fused = <<<<0, 1>>, <<1, 2>>, <<2, 3>>>>
  /\ mfwd.x.size = 8

HeadNames(out) == [k \in 1..Len(out) |-> out[k].head]
HeadChannels(out) == [k \in 1..Len(out) |-> out[k].t.ch]

\* C10: every forward pass that returns yields exactly three head outputs,
\* all computed from the same fused decoder tensor, with num_classes, 2 and
\* 2 channels: PoseResNet.forward returns the one-element list holding
\* [hmap, regs, w_h_], CenterNet.forward the flat list [hm, wh, reg].
C10_ThreeHeadOutputs ==
  /\ pc = "returned" =>
       /\ Len(fwd.out) = 1
       /\ HeadNames(fwd.out[1]) = <<"hmap", "regs", "w_h_">>
       /\ HeadChannels(fwd.out[1]) = <<net.num_classes, 2, 2>>
       /\ \A k \in 1..3 :
            fwd.out[1][k].input = fwd.x /\ fwd.out[1][k].t.size = fwd.x.size
  /\ pc = "m_returned" =>
       /\ HeadNames(mfwd.out) = <<"hm", "wh", "reg">>
       /\ HeadChannels(mfwd.out) = <<cnet.num_classes, 2, 2>>
       /\ \A k \in 1..3 :
            mfwd.out[k].input = mfwd.x /\ mfwd.out[k].t.size = mfwd.x.size

C10_Witness ==
  /\ pc = "returned"
  /\ net.head_conv = 1
  /\ net.num_classes = 2
  /\ HeadChannels(fwd.out[1]) = <<2, 2, 2>>
  /\ fwd.x = Tensor(128, 16)

\* Index in base.built of the first block of stage id (0-based); built[1]
\* is the first convolution.
RECURSIVE StageStart(_)
StageStart(id) ==
  IF id = 0 THEN 2
  ELSE StageStart(id - 1) + inverted_residual_setting[id][3]

\* C11: a SandGlass or InvertResidual returns x + self.conv(x) if and only
\* if it was constructed with stride = 1 and inp = outp, and self.conv(x)
\* otherwise; in the MobileNetv2 built from the hard-coded setting the first
\* block of each of the 7 stages is non-residual and every later block of a
\* stage is residual, 10 residual blocks out of 17.
C11_ResidualIffStrideOneSameChannels ==
  /\ pc = "block_returned" =>
       /\ (blk.ret = "return x + self.conv(x)")
            <=> (blk.args[4] = 1 /\ blk.args[2] = blk.args[3])
       /\ blk.ret # "return x + self.conv(x)" => blk.ret = "return self.conv(x)"
       /\ blk.out = IF blk.ret = "return x + self.conv(x)"
                    THEN Add(blk.x, conv_forward(blk.conv, blk.x))
                    ELSE conv_forward(blk.conv, blk.x)
  /\ BackboneBuilt =>
       /\ Len(inverted_residual_setting) = 7
       /\ \A id \in 0..6 :
            \A i \in 0..(inverted_residual_setting[id + 1][3] - 1) :
              residual(base.built[StageStart(id) + i]) <=> (i > 0)
       /\ Cardinality({k \in 2..Len(base.built) : residual(base.built[k])}) = 10
       /\ Len(base.built) - 1 = 17

C11_Witness ==
  /\ pc = "block_returned"
  /\ blk.args = <<"InvertResidual", 16, 16, 1, 6>>
  /\ blk.ret = "return x + self.conv(x)"
  /\ Len(blk.conv) = 3
  /\ blk.out = Tensor(16, 8)

\* C12: MobileNext.get_pose_net completes construction without error: every
\* name and attribute read along the construction path is defined when
\* read (the backbone exposes feat_channel, BasicConv is bound when
\* MobileNetUp.__init__ uses it), so the call never ends in an exception and
\* reaches the decoder with both reads satisfied.
C12_MobileNextConstructionCompletes ==
  nx.called =>
    /\ pc # "raised"
    /\ pc = "nx_base" => "feat_channel" \in nx.attrs
    /\ pc = "nx_up" => (nx.dla_up /\ "BasicConv" \in MobileNext_globals)

Malformed(setting) ==
  Len(setting) = 0 \/ \E k \in 1..Len(setting) : Len(setting[k]) # 4

\* The assertion half of C13: a block constructed with a stride outside
\* {1, 2} raises AssertionError before any sub-layer exists.
AssertionFiresFirst ==
  (blk.args # <<>> /\ blk.args[4] \notin {1, 2}) =>
    (pc = "raised" /\ exc = "AssertionError" /\ blk.b = <<>> /\ blk.conv = <<>>)

\* The built-in half of C13: while MobileNetv2 and MobileNeXt are built from
\* their own settings neither validation fires; every row has 4 elements
\* and every block gets a stride in {1, 2}.
BuiltInsPassValidation ==
  /\ (cnet.head_conv # 0 \/ nx.called) =>
       exc \notin {"AssertionError", "ValueError"}
  /\ \A k \in 1..Len(inverted_residual_setting) :
       Len(inverted_residual_setting[k]) = 4
  /\ \A k \in 1..Len(cfgs) : Len(cfgs[k]) = 4
  /\ \A k \in 1..Len(base.built) : base.built[k].stride \in {1, 2}
  /\ \A k \in 1..Len(nx.layers) : nx.layers[k].stride \in {1, 2}
  /\ (mb.called /\ mb.setting = inverted_residual_setting) =>
       (mb.exc = "" /\ Len(mb.built) = 18)

DivisibleAndClose(v, divisor, new_v) ==
  /\ new_v > 0
  /\ new_v % divisor = 0
  /\ new_v >= divisor
  /\ 10 * new_v >= 9 * v
  /\ (divisor = 8 /\ v \in BuiltInChannels) => (v % 8 = 0 /\ new_v = v)

\* C14: for positive integers v and divisor, min_value left at its
\* default, _make_divisible(v, divisor) is a positive multiple of divisor,
\* at least divisor, and not more than 10% below v; the channel counts of
\* both built-in settings, with divisor 8, come back unchanged.
C14_MakeDivisible ==
  pc = "divided" =>
    /\ DivisibleAndClose(dv.v, dv.divisor, dv.new_v)
    /\ DivisibleAndClose(dv.v, dv.divisor, dv.MobileNext_new_v)

C14_Witness ==
  /\ pc = "divided"
  /\ dv.v = 11
  /\ dv.divisor = 8
  /\ dv.new_v = 16
  /\ dv.MobileNext_new_v = 16

\* The target model's parameters are as they were built.
ModelUnchanged == \A k \in 1..Len(lm.model) : lm.model[k][2].data = 0

\* The shorter-source half of C15: the loop fails with IndexError before
\* load_state_dict is called and the target's parameters stay as they were.
ShortSourceFails ==
  (LoadStarted /\ Len(lm.old_keys) < Len(lm.new_keys)) =>
    /\ ~lm.called
    /\ ModelUnchanged
    /\ pc # "loaded"
    /\ pc = "raised" => (exc = "IndexError" /\ lm.id = Len(lm.old_keys))

\* Source items at positions >= the target's key count are never read.
ExtraItemsNeverRead == lm.reads \subseteq 0..(Len(lm.new_keys) - 1)

\* Every positionally bound source value has the shape the target's entry
\* was built with.
ShapesFit ==
  \A k \in 1..Len(lm.new_keys) : lm.state_dict[k][2].shape = lm.built[k]

\* C15 (as claimed): a source with fewer entries than the target makes
\* load_model fail with IndexError before load_state_dict is called, the
\* target unchanged; with a source of more entries the extra items are never
\* read and loading proceeds without error.
C15_LongerSourceLoadsWithoutError ==
  /\ ShortSourceFails
  /\ (LoadStarted /\ Len(lm.old_keys) > Len(lm.new_keys)) =>
       /\ ExtraItemsNeverRead
       /\ pc # "raised"

\* C15 (amended): a source with fewer entries than the target makes
\* load_model fail with IndexError before load_state_dict is called, the
\* target unchanged; with a source of more entries the extra items are never
\* read, the loop raises nothing and load_state_dict is called; that call
\* succeeds exactly when every positionally bound value has the shape of
\* its target entry, and raises RuntimeError otherwise.
C15_LongerSourceReachesLoadStateDict ==
  /\ ShortSourceFails
  /\ (LoadStarted /\ Len(lm.old_keys) > Len(lm.new_keys)) =>
       /\ ExtraItemsNeverRead
       /\ exc # "IndexError"
       /\ pc # "restore" => lm.called
       /\ pc = "loaded" => ShapesFit
       /\ pc = "raised" => (exc = "RuntimeError" /\ ~ShapesFit)

C15_Witness ==
  /\ pc = "loaded"
  /\ Len(lm.new_keys) = 2
  /\ Len(lm.old_keys) = 3
  /\ lm.reads = {0, 1}
  /\ lm.model = <<<<1, tensor(2, 20)>>, <<2, tensor(1, 10)>>>>

====
